---- MODULE Spec2Model ----
(***************************************************************************)
(* A model of the scanner, the lexer and the recursive-descent parser of   *)
(* src/src/main.rs.                                                        *)
(*                                                                         *)
(* Characters are Unicode scalar values (Rust's char), written as their    *)
(* code points; a string is a sequence of them. Rust's 0-based cursor is   *)
(* kept 0-based: characters[cursor] of the source is                      *)
(* sc.characters[sc.cursor + 1] here. An Option is a sequence of length    *)
(* 0 (None) or 1 (Some).                                                   *)
(***************************************************************************)
EXTENDS Integers, Sequences, FiniteSets, TLC

VARIABLES
    scanner,     \* Scanner {cursor, characters, curr_line, curr_col}
    tokens,      \* lex: the Vec<Token> under construction
    prev_line,   \* lex: prev_line
    prev_col,    \* lex: prev_col
    trace,       \* history: every token a rule produced, with its cursor span
    parser,      \* Parser {cursor, tokens}
    program,     \* parse_program: the Vec<Statement> under construction
    modifier,    \* parse_key: the Option<Mod> taken for the key
    key,         \* parse_map: the Option<Key> parsed so far
    pc,          \* the position of the running function
    result,      \* what lex / parse returned
    last,        \* history: the last Scanner operation applied and its outcome
    edit         \* history: the whitespace edit applied to the source text

vars == <<scanner, tokens, prev_line, prev_col, trace, parser, program,
          modifier, key, pc, result, last, edit>>

---------------------------------------------------------------------------
(* Characters and the program's string literals *)

ch_newline == 10
ch_tab     == 9
ch_space   == 32
ch_a       == 97
ch_z       == 122

str_ctrl  == <<99, 116, 114, 108>>        \* "ctrl"
str_shift == <<115, 104, 105, 102, 116>>  \* "shift"
str_alt   == <<97, 108, 116>>             \* "alt"
str_map   == <<109, 97, 112>>             \* "map"
str_plus  == <<43>>                       \* "+"

\* enum Mod, by discriminant
Ctrl  == 0
Shift == 1
Alt   == 2

None == <<>>
Some(x) == <<x>>

---------------------------------------------------------------------------
(* Scanner *)

Scanner_new(string) ==
    [cursor |-> 0, characters |-> string, curr_line |-> 1, curr_col |-> 1]

Scanner_peek(sc) ==
    IF sc.cursor < Len(sc.characters)
    THEN Some(sc.characters[sc.cursor + 1])
    ELSE None

Scanner_is_done(sc) == sc.cursor >= Len(sc.characters)

\* a pop that counts a newline as one more column of the line
Scanner_pop_same_line(sc) ==
    IF sc.cursor < Len(sc.characters)
    THEN [sc  |-> [sc EXCEPT !.curr_col = @ + 1, !.cursor = @ + 1],
          val |-> Some(sc.characters[sc.cursor + 1])]
    ELSE [sc |-> sc, val |-> None]

\* pop: the scanner afterwards and the Option<&char> returned
Scanner_pop(sc) ==
    IF sc.cursor < Len(sc.characters)
    THEN LET character == sc.characters[sc.cursor + 1] IN
         [sc  |-> IF character = ch_newline
                  THEN [sc EXCEPT !.curr_line = @ + 1, !.curr_col = 1,
                                  !.cursor = @ + 1]
                  ELSE [sc EXCEPT !.curr_col = @ + 1, !.cursor = @ + 1],
          val |-> Some(character)]
    ELSE [sc |-> sc, val |-> None]

pop_in_range(sc, lo, hi) ==
    LET p == Scanner_peek(sc) IN
    IF p # None
    THEN IF lo <= p[1] /\ p[1] <= hi
         THEN [sc |-> Scanner_pop(sc).sc, val |-> Some(p[1])]
         ELSE [sc |-> sc, val |-> None]
    ELSE [sc |-> sc, val |-> None]

pop_in_slice(sc, range_slice) ==
    LET p == Scanner_peek(sc) IN
    IF p # None
    THEN IF \E i \in 1..Len(range_slice) : range_slice[i] = p[1]
         THEN [sc |-> Scanner_pop(sc).sc, val |-> Some(p[1])]
         ELSE [sc |-> sc, val |-> None]
    ELSE [sc |-> sc, val |-> None]

take(sc, target) ==
    IF sc.cursor < Len(sc.characters)
    THEN IF target = sc.characters[sc.cursor + 1]
         THEN [sc |-> Scanner_pop(sc).sc, ok |-> TRUE]
         ELSE [sc |-> sc, ok |-> FALSE]
    ELSE [sc |-> sc, ok |-> FALSE]

\* the `for _ in orig_cursor..ind { self.pop(); }` of take_str
RECURSIVE PopTimes(_, _)
PopTimes(sc, n) == IF n <= 0 THEN sc ELSE PopTimes(Scanner_pop(sc).sc, n - 1)

\* the comparing loop of take_str, from the k-th character of target with the
\* index ind: whether all matched, the index reached, and whether
\* self.characters[ind] was indexed out of range (a panic)
RECURSIVE take_str_compare(_, _, _, _)
take_str_compare(sc, target, k, ind) ==
    IF k > Len(target) THEN [matched |-> TRUE, ind |-> ind, panic |-> FALSE]
    ELSE IF ind >= Len(sc.characters)
         THEN [matched |-> FALSE, ind |-> ind, panic |-> TRUE]
    ELSE IF target[k] # sc.characters[ind + 1]
         THEN [matched |-> FALSE, ind |-> ind, panic |-> FALSE]
    ELSE take_str_compare(sc, target, k + 1, ind + 1)

\* a take_str that consumes as it compares: what is matched before a mismatch
\* or the end of input stays consumed
RECURSIVE take_str_eager_from(_, _, _)
take_str_eager_from(sc, target, k) ==
    IF k > Len(target) THEN [sc |-> sc, ok |-> TRUE, panic |-> FALSE]
    ELSE LET t == take(sc, target[k]) IN
         IF t.ok THEN take_str_eager_from(t.sc, target, k + 1)
         ELSE [sc |-> sc, ok |-> FALSE, panic |-> FALSE]

take_str_eager(sc, target) == take_str_eager_from(sc, target, 1)

\* a take_str without the test of the remaining length
take_str_unchecked(sc, target) ==
    LET c == take_str_compare(sc, target, 1, sc.cursor) IN
    IF c.panic THEN [sc |-> sc, ok |-> FALSE, panic |-> TRUE]
    ELSE IF ~c.matched THEN [sc |-> sc, ok |-> FALSE, panic |-> FALSE]
    ELSE [sc |-> PopTimes(sc, c.ind - sc.cursor), ok |-> TRUE, panic |-> FALSE]

\* target.len() counts bytes; the targets here are ASCII, one byte a character
take_str(sc, target) ==
    IF Len(target) + sc.cursor > Len(sc.characters)
    THEN [sc |-> sc, ok |-> FALSE, panic |-> FALSE]
    ELSE LET c == take_str_compare(sc, target, 1, sc.cursor) IN
         IF c.panic THEN [sc |-> sc, ok |-> FALSE, panic |-> TRUE]
         ELSE IF ~c.matched THEN [sc |-> sc, ok |-> FALSE, panic |-> FALSE]
         ELSE [sc |-> PopTimes(sc, c.ind - sc.cursor), ok |-> TRUE,
               panic |-> FALSE]

---------------------------------------------------------------------------
(* Tokens *)

\* TokenKind: the variant and its payload
Id(buf)        == [tag |-> "Id", val |-> buf]
Mod(m)         == [tag |-> "Mod", val |-> <<m>>]
Phrase(phrase) == [tag |-> "Phrase", val |-> phrase]
Whitespace     == [tag |-> "Whitespace", val |-> <<>>]
Newline        == [tag |-> "Newline", val |-> <<>>]

Token_new(sc, kind) ==
    [line |-> sc.curr_line, col |-> sc.curr_col, kind |-> kind]

---------------------------------------------------------------------------
(* Lexer rules: each returns the scanner as it leaves it, Ok(token) or *)
(* Err(err), and whether it panicked                                    *)

RuleOk(sc, kind) ==
    [ok |-> TRUE, sc |-> sc, token |-> Token_new(sc, kind), err |-> "",
     panic |-> FALSE]

RuleErr(sc, err, panic) ==
    [ok |-> FALSE, sc |-> sc, token |-> None, err |-> err, panic |-> panic]

\* the loop of lex_id; both pop_in_range calls are given 'a'..='z'
RECURSIVE lex_id_loop(_, _)
lex_id_loop(sc, buf) ==
    LET lowercase == pop_in_range(sc, ch_a, ch_z) IN
    IF lowercase.val # None
    THEN lex_id_loop(lowercase.sc, Append(buf, lowercase.val[1]))
    ELSE LET uppercase == pop_in_range(lowercase.sc, ch_a, ch_z) IN
         IF uppercase.val # None
         THEN lex_id_loop(uppercase.sc, Append(buf, uppercase.val[1]))
         ELSE [sc |-> uppercase.sc, buf |-> buf]

lex_id(sc) ==
    LET r == lex_id_loop(sc, <<>>) IN
    IF r.buf = <<>>
    THEN RuleErr(r.sc, "ExpectedId", FALSE)
    ELSE RuleOk(r.sc, Id(r.buf))

lex_mod(sc) ==
    LET c == take_str(sc, str_ctrl) IN
    IF c.panic THEN RuleErr(c.sc, "", TRUE)
    ELSE IF c.ok THEN RuleOk(c.sc, Mod(Ctrl))
    ELSE LET s == take_str(c.sc, str_shift) IN
    IF s.panic THEN RuleErr(s.sc, "", TRUE)
    ELSE IF s.ok THEN RuleOk(s.sc, Mod(Shift))
    ELSE LET a == take_str(s.sc, str_alt) IN
    IF a.panic THEN RuleErr(a.sc, "", TRUE)
    ELSE IF a.ok THEN RuleOk(a.sc, Mod(Alt))
    ELSE RuleErr(a.sc, "ExpectedMod", FALSE)

lex_phrase(phrase, sc) ==
    LET t == take_str(sc, phrase) IN
    IF t.panic THEN RuleErr(t.sc, "", TRUE)
    ELSE IF t.ok THEN RuleOk(t.sc, Phrase(phrase))
    ELSE RuleErr(t.sc, "ExpectedPhrase", FALSE)

RECURSIVE lex_whitespace_loop(_, _)
lex_whitespace_loop(sc, was_whitespace) ==
    LET p == pop_in_slice(sc, <<ch_space, ch_tab>>) IN
    IF p.val # None THEN lex_whitespace_loop(p.sc, TRUE)
    ELSE [sc |-> p.sc, was_whitespace |-> was_whitespace]

\* a whitespace rule that knows the space and not the tab
RECURSIVE lex_spaces_loop(_, _)
lex_spaces_loop(sc, was_whitespace) ==
    LET p == pop_in_slice(sc, <<ch_space>>) IN
    IF p.val # None THEN lex_spaces_loop(p.sc, TRUE)
    ELSE [sc |-> p.sc, was_whitespace |-> was_whitespace]

lex_whitespace_spaces(sc) ==
    LET r == lex_spaces_loop(sc, FALSE) IN
    IF r.was_whitespace
    THEN RuleOk(r.sc, Whitespace)
    ELSE RuleErr(r.sc, "ExpectedWhitespace", FALSE)

lex_whitespace(sc) ==
    LET r == lex_whitespace_loop(sc, FALSE) IN
    IF r.was_whitespace
    THEN RuleOk(r.sc, Whitespace)
    ELSE RuleErr(r.sc, "ExpectedWhitespace", FALSE)

lex_newline(sc) ==
    LET t == take(sc, ch_newline) IN
    IF t.ok THEN RuleOk(t.sc, Newline)
    ELSE RuleErr(t.sc, "ExpectedNewline", FALSE)

\* the vector `lexers` of lex, in its order
NLexers == 6

RunLexer(i, sc) ==
    CASE i = 1 -> lex_mod(sc)
      [] i = 2 -> lex_newline(sc)
      [] i = 3 -> lex_whitespace(sc)
      [] i = 4 -> lex_phrase(str_map, sc)
      [] i = 5 -> lex_phrase(str_plus, sc)
      [] i = 6 -> lex_id(sc)

\* one pass over `lexers` at a scanner position: the index of the first rule
\* that returns Ok (0 when none does) and that rule's result. Every rule is
\* called on the scanner as the rules before it left it.
RECURSIVE TryLexers(_, _)
TryLexersNext(i, r) ==
    IF r.ok \/ r.panic THEN [idx |-> i, r |-> r]
    ELSE TryLexers(i + 1, r.sc)

TryLexers(i, sc) ==
    IF i > NLexers THEN [idx |-> 0, r |-> RuleErr(sc, "", FALSE)]
    ELSE TryLexersNext(i, RunLexer(i, sc))

Running == [tag |-> "Running", val |-> <<>>]
Ok(v)   == [tag |-> "Ok", val |-> v]
Err(e)  == [tag |-> "Err", val |-> e]
Panic   == [tag |-> "Panic", val |-> <<>>]

\* the two mem::swap calls without effect: the token keeps the position
\* Token::new stamped on it
SwapSkipped(token, pl, pc_) ==
    [token |-> token, prev_line |-> pl, prev_col |-> pc_]

\* mem::swap(&mut token.line, &mut prev_line); mem::swap(&mut token.col, &mut prev_col)
Swap(token, pl, pc_) ==
    [token |-> [token EXCEPT !.line = pl, !.col = pc_],
     prev_line |-> token.line, prev_col |-> token.col]

\* the state of lex: its scanner, its locals and what it returned
LexState(sc) ==
    [scanner |-> sc, tokens |-> <<>>, prev_line |-> 1, prev_col |-> 1,
     trace |-> <<>>, result |-> Running]

\* the body of `if let Ok(mut token) = lexer(scanner)`: swap, push, continue
lex_emit(st, t, s) ==
    [st EXCEPT
       !.scanner = t.r.sc,
       !.prev_line = s.prev_line,
       !.prev_col = s.prev_col,
       !.tokens = IF s.token.kind # Whitespace THEN Append(@, s.token) ELSE @,
       !.trace = Append(@, [kind |-> t.r.token.kind, rule |-> t.idx,
                            from |-> st.scanner.cursor,
                            to |-> t.r.sc.cursor])]

\* the `for lexer in &lexers` of lex, given what the pass over the rules found
lex_for(st, t) ==
    IF t.r.panic THEN [st EXCEPT !.scanner = t.r.sc, !.result = Panic]
    ELSE IF t.idx = 0
    THEN [st EXCEPT !.scanner = t.r.sc, !.result = Err("RemainingInput")]
    ELSE lex_emit(st, t, Swap(t.r.token, st.prev_line, st.prev_col))

\* one iteration of the loop 'scanner of lex, the return included
lex_iteration(st) ==
    IF Scanner_is_done(st.scanner) THEN [st EXCEPT !.result = Ok(st.tokens)]
    ELSE lex_for(st, TryLexers(1, st.scanner))

\* lex, run to its return
RECURSIVE lex_from(_)
lex_from(st) ==
    IF st.result.tag # "Running" THEN st ELSE lex_from(lex_iteration(st))

lex(sc) == lex_from(LexState(sc))

---------------------------------------------------------------------------
(* Parser *)

\* Position; line and col are read only of a Pos
EOF == [tag |-> "EOF", line |-> 0, col |-> 0]
Pos(line, col) == [tag |-> "Pos", line |-> line, col |-> col]

\* ParseErrorKind: the variant and, for Expected, the TokenKind expected
NoKind == [tag |-> "", val |-> <<>>]
Expected(kind)  == [tag |-> "Expected", kind |-> kind]
ExpectedId      == [tag |-> "ExpectedId", kind |-> NoKind]
ExpectedMod     == [tag |-> "ExpectedMod", kind |-> NoKind]
RemainingTokens == [tag |-> "RemainingTokens", kind |-> NoKind]

ParseError_new(kind) == [position |-> EOF, kind |-> kind]

ParseError_new_pos(token, kind) ==
    [position |-> Pos(token.line, token.col), kind |-> kind]

NoError == [position |-> EOF, kind |-> NoKind]

Parser_new(toks) == [cursor |-> 0, tokens |-> toks]

Parser_peek(p) ==
    IF p.cursor < Len(p.tokens) THEN Some(p.tokens[p.cursor + 1]) ELSE None

Parser_is_done(p) == p.cursor >= Len(p.tokens)

Parser_pop(p) ==
    IF p.cursor < Len(p.tokens)
    THEN [p |-> [p EXCEPT !.cursor = @ + 1], val |-> Some(p.tokens[p.cursor + 1])]
    ELSE [p |-> p, val |-> None]

\* a ParseResult with the parser as the call left it
POk(p, v)  == [ok |-> TRUE, p |-> p, val |-> v, err |-> NoError]
PErr(p, e) == [ok |-> FALSE, p |-> p, val |-> <<>>, err |-> e]

take_id_match(p, t) ==
    IF t = None THEN PErr(p, ParseError_new(ExpectedId))
    ELSE IF t[1].kind.tag = "Id" THEN POk(Parser_pop(p).p, t[1].kind.val)
    ELSE PErr(p, ParseError_new_pos(t[1], ExpectedId))

take_id(p) == take_id_match(p, Parser_peek(p))

take_mod_match(p, t) ==
    IF t = None THEN PErr(p, ParseError_new(ExpectedMod))
    ELSE IF t[1].kind.tag = "Mod" THEN POk(Parser_pop(p).p, t[1].kind.val)
    ELSE PErr(p, ParseError_new_pos(t[1], ExpectedMod))

take_mod(p) == take_mod_match(p, Parser_peek(p))

\* an expect that consumes the token it rejects
Parser_expect_consuming(p, target) ==
    IF p.cursor < Len(p.tokens)
    THEN IF target = p.tokens[p.cursor + 1].kind
         THEN POk(Parser_pop(p).p, <<>>)
         ELSE PErr(Parser_pop(p).p,
                   ParseError_new_pos(p.tokens[p.cursor + 1], Expected(target)))
    ELSE PErr(p, ParseError_new(Expected(target)))

Parser_expect(p, target) ==
    IF p.cursor < Len(p.tokens)
    THEN IF target = p.tokens[p.cursor + 1].kind
         THEN POk(Parser_pop(p).p, <<>>)
         ELSE PErr(p, ParseError_new_pos(p.tokens[p.cursor + 1], Expected(target)))
    ELSE PErr(p, ParseError_new(Expected(target)))

Key(k, m)         == [key |-> k, modifier |-> m]
Map(k, cmd_name)  == [tag |-> "Map", key |-> k, cmd_name |-> cmd_name]

\* the state of parse: its parser, the locals of the functions it is in, the
\* place it is at, and what it returned
ParseState(p) ==
    [parser |-> p, program |-> <<>>, modifier |-> None, key |-> None,
     pc |-> "parse_map", result |-> Running]

\* `?`: return the error from parse
Fail(st, r) ==
    [st EXCEPT !.parser = r.p, !.result = Err(r.err), !.pc = "done"]

\* parse_map: parser.expect(TokenKind::Phrase("map"))?
parse_map_expect(st, r) ==
    IF r.ok THEN [st EXCEPT !.parser = r.p, !.pc = "parse_key"]
    ELSE Fail(st, r)

\* parse_key: match parser.take_mod(); Err(_) => None
parse_key_take_mod(st, r) ==
    IF r.ok
    THEN [st EXCEPT !.parser = r.p, !.modifier = Some(r.val[1]),
                    !.pc = "expect_plus"]
    ELSE [st EXCEPT !.parser = r.p, !.modifier = None, !.pc = "take_key"]

\* a parse_key that takes a modifier without "+" after it for no modifier
parse_key_expect_plus_lenient(st, r) ==
    IF r.ok THEN [st EXCEPT !.parser = r.p, !.pc = "take_key"]
    ELSE [st EXCEPT !.parser = r.p, !.modifier = None, !.pc = "take_key"]

\* parse_key: parser.expect(TokenKind::Phrase("+"))?
parse_key_expect_plus(st, r) ==
    IF r.ok THEN [st EXCEPT !.parser = r.p, !.pc = "take_key"]
    ELSE Fail(st, r)

\* parse_key: let key = parser.take_id()?; Ok(Key {key, modifier})
parse_key_take_id(st, r) ==
    IF r.ok
    THEN [st EXCEPT !.parser = r.p, !.key = Some(Key(r.val, st.modifier)),
                    !.modifier = None, !.pc = "take_cmd_name"]
    ELSE Fail(st, r)

\* parse_map: let cmd_name = parser.take_id()?; then parse_statement's wrap
\* and parse_program's push
parse_map_take_cmd_name(st, r) ==
    IF r.ok
    THEN [st EXCEPT !.parser = r.p,
                    !.program = Append(@, Map(st.key[1], r.val)),
                    !.key = None, !.pc = "after_statement"]
    ELSE Fail(st, r)

\* a parse_program that leaves its loop at any token that is no Newline
parse_program_peek_break(st, t) ==
    IF t = None THEN [st EXCEPT !.pc = "parse_check"]
    ELSE IF t[1].kind = Newline
    THEN [st EXCEPT !.parser = Parser_pop(st.parser).p, !.pc = "parse_map"]
    ELSE [st EXCEPT !.pc = "parse_check"]

\* a parse_program that is done when nothing follows a Newline
parse_program_peek_trailing(st, t) ==
    IF t = None THEN [st EXCEPT !.pc = "parse_check"]
    ELSE IF t[1].kind = Newline
    THEN [st EXCEPT !.parser = Parser_pop(st.parser).p,
                    !.pc = IF Parser_is_done(Parser_pop(st.parser).p)
                           THEN "parse_check" ELSE "parse_map"]
    ELSE [st EXCEPT !.result = Err(ParseError_new_pos(t[1], Expected(Newline))),
                    !.pc = "done"]

\* parse_program: match parser.peek() after a statement
parse_program_peek(st, t) ==
    IF t = None THEN [st EXCEPT !.pc = "parse_check"]
    ELSE IF t[1].kind = Newline
    THEN [st EXCEPT !.parser = Parser_pop(st.parser).p, !.pc = "parse_map"]
    ELSE [st EXCEPT !.result = Err(ParseError_new_pos(t[1], Expected(Newline))),
                    !.pc = "done"]

\* parse, after parse_program returned Ok: parser.peek().unwrap() panics on None
parse_check(st, t) ==
    IF Parser_is_done(st.parser)
    THEN [st EXCEPT !.result = Ok(st.program), !.pc = "done"]
    ELSE IF t = None THEN [st EXCEPT !.result = Panic, !.pc = "done"]
    ELSE [st EXCEPT !.result = Err(ParseError_new_pos(t[1], RemainingTokens)),
                    !.pc = "done"]

\* one step of parse from the place st.pc
parse_step(st) ==
    CASE st.pc = "parse_map" ->
           parse_map_expect(st, Parser_expect(st.parser, Phrase(str_map)))
      [] st.pc = "parse_key" ->
           parse_key_take_mod(st, take_mod(st.parser))
      [] st.pc = "expect_plus" ->
           parse_key_expect_plus(st, Parser_expect(st.parser, Phrase(str_plus)))
      [] st.pc = "take_key" ->
           parse_key_take_id(st, take_id(st.parser))
      [] st.pc = "take_cmd_name" ->
           parse_map_take_cmd_name(st, take_id(st.parser))
      [] st.pc = "after_statement" ->
           parse_program_peek(st, Parser_peek(st.parser))
      [] st.pc = "parse_check" ->
           parse_check(st, Parser_peek(st.parser))

\* parse, run to its return
RECURSIVE parse_from(_)
parse_from(st) == IF st.pc = "done" THEN st ELSE parse_from(parse_step(st))

parse(p) == parse_from(ParseState(p))

---------------------------------------------------------------------------
(* Inputs *)

RECURSIVE Flatten(_)
Flatten(ws) == IF ws = <<>> THEN <<>> ELSE Head(ws) \o Flatten(Tail(ws))

SeqsUpTo(S, n) == UNION {[1..k -> S] : k \in 0..n}

\* the texts the lexer is run on: up to MaxWords of these pieces, concatenated
MaxWords == 3

Words ==
    {str_ctrl, str_shift, str_alt, str_map, str_plus,
     <<ch_space>>, <<ch_tab>>, <<ch_newline>>,
     <<107>>,         \* "k"
     <<117, 112>>,    \* "up"
     <<97>>,          \* "a"
     <<75>>,          \* "K"
     <<49>>}          \* "1"

Idle == [tag |-> "Idle"]

---------------------------------------------------------------------------
(* The lexer as a state machine: one action per rule of `lexers` *)

LexInit ==
    /\ \E ws \in SeqsUpTo(Words, MaxWords) : scanner = Scanner_new(Flatten(ws))
    /\ tokens = <<>>
    /\ prev_line = 1
    /\ prev_col = 1
    /\ trace = <<>>
    /\ pc = "lex"
    /\ result = Running
    /\ parser = Idle /\ program = <<>> /\ modifier = None /\ key = None
    /\ last = Idle /\ edit = Idle

LexAssign(st) ==
    /\ scanner' = st.scanner
    /\ tokens' = st.tokens
    /\ prev_line' = st.prev_line
    /\ prev_col' = st.prev_col
    /\ trace' = st.trace
    /\ result' = st.result
    /\ pc' = IF st.result.tag = "Running" THEN "lex" ELSE "done"
    /\ UNCHANGED <<parser, program, modifier, key, last, edit>>

LexApply ==
    LexAssign(lex_iteration([scanner |-> scanner, tokens |-> tokens,
                             prev_line |-> prev_line, prev_col |-> prev_col,
                             trace |-> trace, result |-> result]))

\* the first rule of `lexers` that returns Ok at the scanner's position (0: none)
Matched(i) ==
    /\ pc = "lex"
    /\ ~Scanner_is_done(scanner)
    /\ TryLexers(1, scanner).idx = i

LexMod        == Matched(1) /\ LexApply
LexNewline    == Matched(2) /\ LexApply
LexWhitespace == Matched(3) /\ LexApply
LexMap        == Matched(4) /\ LexApply
LexPlus       == Matched(5) /\ LexApply
LexId         == Matched(6) /\ LexApply
\* no rule matched: return Err(LexError::RemainingInput)
LexRemaining  == Matched(0) /\ LexApply
\* the loop condition fails: return Ok(tokens)
LexReturn     == pc = "lex" /\ Scanner_is_done(scanner) /\ LexApply

LexNext ==
    \/ LexMod \/ LexNewline \/ LexWhitespace \/ LexMap \/ LexPlus \/ LexId
    \/ LexRemaining \/ LexReturn

LexSpec == LexInit /\ [][LexNext]_vars

---------------------------------------------------------------------------
(* The parser as a state machine over every short sequence of tokens *)

MaxTokens == 7

\* the shapes of token lex hands to parse (it drops Whitespace)
TokenShapes == {"map", "plus", "mod", "id", "newline"}

\* the token of shape sh at index i. The parser copies the payload of an Id
\* and of a Mod and reads neither, so each is given a payload that tells its
\* index: the modifier i mod 3, the one-letter name 'a' + i.
KindAt(sh, i) ==
    CASE sh = "map" -> Phrase(str_map)
      [] sh = "plus" -> Phrase(str_plus)
      [] sh = "mod" -> Mod(i % 3)
      [] sh = "id" -> Id(<<ch_a + i>>)
      [] sh = "newline" -> Newline

\* tokens of the shapes shs, the i-th on the line after the newlines before
\* it and at the column that counts the tokens of its line
TokensOf(shs) ==
    [i \in 1..Len(shs) |->
       LET nls == {j \in 1..(i - 1) : shs[j] = "newline"}
           lastnl == IF nls = {} THEN 0
                     ELSE CHOOSE j \in nls : \A k \in nls : k <= j
       IN [line |-> 1 + Cardinality(nls), col |-> i - lastnl,
           kind |-> KindAt(shs[i], i)]]

ParseInit ==
    /\ \E shs \in SeqsUpTo(TokenShapes, MaxTokens) :
         parser = Parser_new(TokensOf(shs))
    /\ program = <<>>
    /\ modifier = None
    /\ key = None
    /\ pc = "parse_map"
    /\ result = Running
    /\ scanner = Idle /\ tokens = <<>> /\ prev_line = 1 /\ prev_col = 1
    /\ trace = <<>> /\ last = Idle /\ edit = Idle

ParseAssign(st) ==
    /\ parser' = st.parser
    /\ program' = st.program
    /\ modifier' = st.modifier
    /\ key' = st.key
    /\ pc' = st.pc
    /\ result' = st.result
    /\ UNCHANGED <<scanner, tokens, prev_line, prev_col, trace, last, edit>>

ParseApply ==
    ParseAssign(parse_step([parser |-> parser, program |-> program,
                            modifier |-> modifier, key |-> key, pc |-> pc,
                            result |-> result]))

ExpectMap      == pc = "parse_map" /\ ParseApply
TakeMod        == pc = "parse_key" /\ ParseApply
ExpectPlus     == pc = "expect_plus" /\ ParseApply
TakeKey        == pc = "take_key" /\ ParseApply
TakeCmdName    == pc = "take_cmd_name" /\ ParseApply
AfterStatement == pc = "after_statement" /\ ParseApply
ParseCheck     == pc = "parse_check" /\ ParseApply

ParseNext ==
    \/ ExpectMap \/ TakeMod \/ ExpectPlus \/ TakeKey \/ TakeCmdName
    \/ AfterStatement \/ ParseCheck

ParseSpec == ParseInit /\ [][ParseNext]_vars

---------------------------------------------------------------------------
(* Notions the properties are stated with *)

\* the source text of a token kind
TextOf(kind) ==
    CASE kind.tag = "Mod" ->
           (CASE kind.val[1] = Ctrl -> str_ctrl
              [] kind.val[1] = Shift -> str_shift
              [] kind.val[1] = Alt -> str_alt)
      [] kind.tag = "Newline" -> <<ch_newline>>
      [] OTHER -> kind.val

\* the 1-based line and column of the character at 0-based offset off
LineColAt(chars, off) ==
    LET nls == {j \in 1..off : chars[j] = ch_newline}
        lastnl == IF nls = {} THEN 0 ELSE CHOOSE j \in nls : \A k \in nls : k <= j
    IN <<1 + Cardinality(nls), off - lastnl + 1>>

\* the position reached from pos by advancing over text, a newline moving to
\* the next line's column 1
RECURSIVE Advance(_, _)
Advance(pos, text) ==
    IF text = <<>> THEN pos
    ELSE Advance(IF Head(text) = ch_newline THEN <<pos[1] + 1, 1>>
                 ELSE <<pos[1], pos[2] + 1>>, Tail(text))

IsAsciiLetter(ch) == (65 <= ch /\ ch <= 90) \/ (97 <= ch /\ ch <= 122)

IsBlank(text) == \A j \in 1..Len(text) : text[j] \in {ch_space, ch_tab}

---------------------------------------------------------------------------
(* The Scanner's operations applied in any order to a scanner over a short *)
(* text                                                                    *)

MaxChars == 4

\* 'm', 'a', 'p', '\n', ' '
ScanChars == {109, 97, 112, ch_newline, ch_space}

\* "map", "ma", "a\n", "", "alt", "\n"
ScanTargets ==
    {str_map, <<109, 97>>, <<97, ch_newline>>, <<>>, str_alt, <<ch_newline>>}

\* 'a'..='z' and 'm'..='p'
ScanRanges == {<<ch_a, ch_z>>, <<109, 112>>}

ScanInit ==
    /\ \E chars \in SeqsUpTo(ScanChars, MaxChars) : scanner = Scanner_new(chars)
    /\ last = [op |-> "new", arg |-> <<>>, ok |-> TRUE, panic |-> FALSE,
               before |-> scanner]
    /\ pc = "scan"
    /\ tokens = <<>> /\ prev_line = 1 /\ prev_col = 1 /\ trace = <<>>
    /\ result = Running
    /\ parser = Idle /\ program = <<>> /\ modifier = None /\ key = None
    /\ edit = Idle

ScanApply(op, arg, sc, ok, panic) ==
    /\ scanner' = sc
    /\ last' = [op |-> op, arg |-> arg, ok |-> ok, panic |-> panic,
                before |-> scanner]
    /\ UNCHANGED <<tokens, prev_line, prev_col, trace, parser, program,
                   modifier, key, pc, result, edit>>

ScanOption(op, arg, r) == ScanApply(op, arg, r.sc, r.val # None, FALSE)

Pop ==
    /\ pc = "scan"
    /\ ScanOption("pop", <<>>, Scanner_pop(scanner))

PopInRange ==
    /\ pc = "scan"
    /\ \E range \in ScanRanges :
         ScanOption("pop_in_range", range,
                    pop_in_range(scanner, range[1], range[2]))

PopInSlice ==
    /\ pc = "scan"
    /\ ScanOption("pop_in_slice", <<ch_space, ch_tab>>,
                  pop_in_slice(scanner, <<ch_space, ch_tab>>))

ScanTake(arg, r) == ScanApply("take", arg, r.sc, r.ok, FALSE)

Take ==
    /\ pc = "scan"
    /\ \E target \in ScanChars : ScanTake(<<target>>, take(scanner, target))

ScanTakeStr(arg, r) == ScanApply("take_str", arg, r.sc, r.ok, r.panic)

TakeStr ==
    /\ pc = "scan"
    /\ \E target \in ScanTargets :
         ScanTakeStr(target, take_str(scanner, target))

ScanNext == Pop \/ PopInRange \/ PopInSlice \/ Take \/ TakeStr

ScanSpec == ScanInit /\ [][ScanNext]_vars

\* C5: a failing take_str, take, pop_in_range, pop_in_slice, or pop at the
\* end of the input, leaves cursor, curr_line and curr_col unchanged, and no
\* operation indexes out of range; a successful take_str(text) advances the
\* cursor by Len(text) and moves line and column as Len(text) pops would.
C5_NoPartialConsumption ==
    /\ ~last.panic
    /\ scanner.characters = last.before.characters
    /\ (last.op # "new" /\ ~last.ok) => scanner = last.before
    /\ (last.op = "pop" /\ ~last.ok) => Scanner_is_done(last.before)
    /\ (last.op = "take_str" /\ last.ok) =>
         /\ scanner.cursor = last.before.cursor + Len(last.arg)
         /\ SubSeq(scanner.characters, last.before.cursor + 1, scanner.cursor)
              = last.arg
         /\ <<scanner.curr_line, scanner.curr_col>>
              = Advance(<<last.before.curr_line, last.before.curr_col>>,
                        last.arg)

\* take_str failed on a text whose first character matched
C5_Witness ==
    /\ last.op = "take_str"
    /\ ~last.ok
    /\ Len(last.arg) + last.before.cursor <= Len(scanner.characters)
    /\ last.before.cursor > 0
    /\ scanner.characters[last.before.cursor + 1] = last.arg[1]

---------------------------------------------------------------------------
(* lex followed by parse, on a text and on the text with one run of spaces *)
(* and tabs inserted or removed between two of its tokens                  *)

MaxWsWords == 5

\* "map", "ctrl", "+", "k", " ", "\n"
WsWords == {str_map, str_ctrl, str_plus, <<107>>, <<ch_space>>, <<ch_newline>>}

\* the run inserted: "\t "
WsRuns == {<<ch_tab, ch_space>>}

\* test_parse without its printing: the Program, or the fact of failure
Failure == [ok |-> FALSE, program |-> <<>>]

parse_outcome(p) ==
    IF p.result.tag = "Ok" THEN [ok |-> TRUE, program |-> p.result.val]
    ELSE Failure

lex_outcome(l) ==
    IF l.result.tag = "Ok" THEN parse_outcome(parse(Parser_new(l.result.val)))
    ELSE Failure

test_parse(input) == lex_outcome(lex(Scanner_new(input)))

NoEdit == [op |-> "none", text |-> <<>>, whole |-> FALSE, left |-> NoKind,
           right |-> NoKind, before |-> Failure, after |-> Failure]

WsInit ==
    /\ \E ws \in SeqsUpTo(WsWords, MaxWsWords) : scanner = Scanner_new(Flatten(ws))
    /\ edit = NoEdit
    /\ pc = "edit"
    /\ tokens = <<>> /\ prev_line = 1 /\ prev_col = 1 /\ trace = <<>>
    /\ result = Running
    /\ parser = Idle /\ program = <<>> /\ modifier = None /\ key = None
    /\ last = Idle

\* the edit made: the text it yields, the kinds of the tokens on its two
\* sides, and what test_parse yields before it (l is lex of the source, its
\* trace holding the source's tokens, the Whitespace ones included) and after
Edited(op, text, whole, l, i, j) ==
    /\ edit' = [op |-> op, text |-> text, whole |-> whole,
                left |-> l.trace[i].kind, right |-> l.trace[j].kind,
                before |-> lex_outcome(l),
                after |-> test_parse(text)]
    /\ pc' = "edited"
    /\ UNCHANGED <<scanner, tokens, prev_line, prev_col, trace, parser, program,
                   modifier, key, result, last>>

InsertBetween(l, i, run) ==
    Edited("insert",
           SubSeq(scanner.characters, 1, l.trace[i].to) \o run
             \o SubSeq(scanner.characters, l.trace[i].to + 1,
                       Len(scanner.characters)),
           FALSE, l, i, i + 1)

\* insert a run where one token of the source ends and the next begins
InsertRun ==
    /\ pc = "edit"
    /\ \E l \in {lex(Scanner_new(scanner.characters))} :
         \E i \in 1..(Len(l.trace) - 1), run \in WsRuns : InsertBetween(l, i, run)

RemoveWithin(l, i, from, to) ==
    Edited("remove",
           SubSeq(scanner.characters, 1, from)
             \o SubSeq(scanner.characters, to + 1, Len(scanner.characters)),
           from = l.trace[i].from /\ to = l.trace[i].to, l, i - 1, i + 1)

\* remove a part or the whole of a whitespace run that has a token before it
\* and a token after it
RemoveRun ==
    /\ pc = "edit"
    /\ \E l \in {lex(Scanner_new(scanner.characters))} :
         \E i \in 2..(Len(l.trace) - 1) :
            /\ l.trace[i].kind.tag = "Whitespace"
            /\ \E from \in l.trace[i].from..(l.trace[i].to - 1) :
                 \E to \in (from + 1)..l.trace[i].to : RemoveWithin(l, i, from, to)

WsNext == InsertRun \/ RemoveRun

WsSpec == WsInit /\ [][WsNext]_vars

\* C3 as stated: no insertion and no removal of a run of spaces and tabs
\* between two tokens changes what lex followed by parse yields.
C3_AnyRunElided ==
    pc = "edited" => edit.after = edit.before

\* the removal that joins two tokens: the whole run between an identifier and
\* a token that begins with a letter
JoinsTokens ==
    /\ edit.op = "remove"
    /\ edit.whole
    /\ edit.left.tag = "Id"
    /\ IsAsciiLetter(TextOf(edit.right)[1])

\* C3, amended: inserting a run of spaces and tabs between two adjacent
\* tokens, removing a part of the run between two tokens, and removing the
\* whole run unless it separates an identifier from a token that begins with
\* a letter, does not change what lex followed by parse yields.
C3_RunElidedUnlessJoining ==
    (pc = "edited" /\ ~JoinsTokens) => edit.after = edit.before

\* the whole run between "map" and the key is removed from a text that parses
C3_Witness ==
    /\ pc = "edited"
    /\ edit.op = "remove"
    /\ edit.whole
    /\ edit.left = Phrase(str_map)
    /\ edit.right.tag = "Id"
    /\ edit.before.ok
    /\ edit.after = edit.before

---------------------------------------------------------------------------
(* Properties of the lexer *)

NotWhitespace(e) == e.kind.tag # "Whitespace"
\* the trace entries of the tokens that are emitted
Emitted == SelectSeq(trace, NotWhitespace)

\* C1: when lex returns Ok, every emitted token carries the 1-based line and
\* column of the first character of its own text in the source, whitespace
\* runs and newlines before it included.
C1_TokenStartPositions ==
    (pc = "done" /\ result.tag = "Ok") =>
        /\ Len(tokens) = Len(Emitted)
        /\ \A i \in 1..Len(tokens) :
             /\ tokens[i].kind = Emitted[i].kind
             /\ SubSeq(scanner.characters, Emitted[i].from + 1, Emitted[i].to)
                  = TextOf(tokens[i].kind)
             /\ <<tokens[i].line, tokens[i].col>>
                  = LineColAt(scanner.characters, Emitted[i].from)

\* a token on the second line that a whitespace run precedes
C1_Witness ==
    /\ pc = "done" /\ result.tag = "Ok"
    /\ \E i \in 1..Len(tokens) : tokens[i].line = 2 /\ tokens[i].col > 1

\* C2 as stated: the first token is at 1:1 and each next token's position
\* is the previous one's advanced by the length of the previous one's text.
C2_AdvanceByTextOnly ==
    (pc = "done" /\ result.tag = "Ok") =>
        /\ Len(tokens) > 0 => <<tokens[1].line, tokens[1].col>> = <<1, 1>>
        /\ \A i \in 1..(Len(tokens) - 1) :
             <<tokens[i + 1].line, tokens[i + 1].col>>
               = Advance(<<tokens[i].line, tokens[i].col>>, TextOf(tokens[i].kind))

\* the source text between the end of emitted token i (0: the start of the
\* input) and the start of emitted token i + 1
Gap(i) ==
    SubSeq(scanner.characters,
           (IF i = 0 THEN 0 ELSE Emitted[i].to) + 1, Emitted[i + 1].from)

\* C2, amended: the first token's position is 1:1 advanced over the
\* whitespace run before it, and each next token's position is the previous
\* one's advanced over the previous one's text and over the dropped
\* whitespace run between the two.
C2_AdvanceByTextAndGap ==
    (pc = "done" /\ result.tag = "Ok") =>
        /\ Len(tokens) = Len(Emitted)
        /\ \A i \in 0..(Len(tokens) - 1) : IsBlank(Gap(i))
        /\ Len(tokens) > 0 =>
             <<tokens[1].line, tokens[1].col>> = Advance(<<1, 1>>, Gap(0))
        /\ \A i \in 1..(Len(tokens) - 1) :
             <<tokens[i + 1].line, tokens[i + 1].col>>
               = Advance(<<tokens[i].line, tokens[i].col>>,
                         TextOf(tokens[i].kind) \o Gap(i))

\* two tokens with a whitespace run between them
C2_Witness ==
    /\ pc = "done" /\ result.tag = "Ok"
    /\ Len(tokens) >= 2
    /\ Len(tokens) = Len(Emitted)
    /\ \E i \in 1..(Len(tokens) - 1) : Gap(i) # <<>>

\* the maximal run of ASCII letters of chars from 0-based offset off
RECURSIVE LetterRun(_, _)
LetterRun(chars, off) ==
    IF off < Len(chars) /\ IsAsciiLetter(chars[off + 1])
    THEN <<chars[off + 1]>> \o LetterRun(chars, off + 1)
    ELSE <<>>

\* the scanner of the input after c characters were consumed
ScannerAt(c) == PopTimes(Scanner_new(scanner.characters), c)

\* C4: at every cursor position whose character is an ASCII letter, lex_id
\* succeeds, consumes the maximal run of ASCII letters and yields Id of that
\* run; and an input of ASCII letters that no earlier rule matches lexes.
C4_IdAcceptsAsciiLetters ==
    /\ \A c \in 0..(Len(scanner.characters) - 1) :
         IsAsciiLetter(scanner.characters[c + 1]) =>
           LET r == lex_id(ScannerAt(c))
               run == LetterRun(scanner.characters, c)
           IN /\ r.ok
              /\ r.sc.cursor = c + Len(run)
              /\ r.token.kind = Id(run)
    /\ (pc = "done" /\ \A j \in 1..Len(scanner.characters) :
                         IsAsciiLetter(scanner.characters[j]))
         => result.tag = "Ok"

RuleAtomic(i, sc) ==
    LET r == RunLexer(i, sc) IN
    /\ ~r.panic
    /\ r.ok => r.sc.cursor > sc.cursor
    /\ ~r.ok => r.sc = sc

\* at every cursor position of the input, each rule either succeeds having
\* advanced the cursor or fails leaving cursor, line and column as they were
RulesAtomic ==
    \A c \in 0..Len(scanner.characters) : \A i \in 1..NLexers :
        RuleAtomic(i, ScannerAt(c))

LexReturned ==
    /\ pc = "done"
    /\ \/ result.tag = "Ok" /\ Scanner_is_done(scanner)
       \/ result.tag = "Err" /\ result.val = "RemainingInput"

\* C9: every rule succeeds with progress or fails with the scanner
\* unchanged; the cursor never decreases and every iteration of the loop
\* that does not return consumes at least one character, so that lex has
\* returned after at most Len(characters) + 1 iterations; and what it
\* returns is Ok with the scanner at the end of the input or
\* Err(RemainingInput), nothing else.
C9_LexProgressAndTermination ==
    /\ []RulesAtomic
    /\ [][scanner'.cursor >= scanner.cursor]_vars
    /\ [][(pc = "lex" /\ pc' = "lex") =>
            /\ scanner'.cursor > scanner.cursor
            /\ Len(trace') = Len(trace) + 1]_vars
    /\ [](Len(trace) <= scanner.cursor /\ scanner.cursor <= Len(scanner.characters))
    /\ [](pc = "lex" => result.tag = "Running")
    /\ [](pc = "done" => LexReturned)

\* lex made progress over two tokens and then met a character no rule takes
C9_Witness ==
    /\ pc = "done"
    /\ result.tag = "Err"
    /\ Len(trace) >= 2
    /\ ~Scanner_is_done(scanner)

---------------------------------------------------------------------------
(* Properties of the parser *)

\* the token at the parser's cursor, if any
CurTok == Parser_peek(parser)

IsNewline(t) == t.kind.tag = "Newline"

\* the tokens between the Newline tokens: the lines of the token sequence
RECURSIVE Split(_)
Split(toks) ==
    IF \A i \in 1..Len(toks) : ~IsNewline(toks[i]) THEN <<toks>>
    ELSE LET i == CHOOSE i \in 1..Len(toks) :
                    IsNewline(toks[i]) /\ \A j \in 1..(i - 1) : ~IsNewline(toks[j])
         IN <<SubSeq(toks, 1, i - 1)>> \o Split(SubSeq(toks, i + 1, Len(toks)))

\* Statement := Phrase("map") [Mod Phrase("+")] Id Id
IsStatement(seg) ==
    \/ /\ Len(seg) = 3
       /\ seg[1].kind = Phrase(str_map)
       /\ seg[2].kind.tag = "Id"
       /\ seg[3].kind.tag = "Id"
    \/ /\ Len(seg) = 5
       /\ seg[1].kind = Phrase(str_map)
       /\ seg[2].kind.tag = "Mod"
       /\ seg[3].kind = Phrase(str_plus)
       /\ seg[4].kind.tag = "Id"
       /\ seg[5].kind.tag = "Id"

\* Program := Statement (Newline Statement)*
IsProgram(toks) ==
    LET segs == Split(toks) IN \A j \in 1..Len(segs) : IsStatement(segs[j])

\* the statement a line of the grammar denotes
StatementOf(seg) ==
    IF Len(seg) = 3
    THEN [tag |-> "Map", key |-> [key |-> seg[2].kind.val, modifier |-> <<>>],
          cmd_name |-> seg[3].kind.val]
    ELSE [tag |-> "Map",
          key |-> [key |-> seg[4].kind.val, modifier |-> seg[2].kind.val],
          cmd_name |-> seg[5].kind.val]

ErrorAt(t, kind) == [position |-> [tag |-> "Pos", line |-> t.line, col |-> t.col],
                     kind |-> kind]

\* C6: in parse_key a token Mod(m) at the cursor is taken and "+" must
\* follow it: any other token, or none, fails with Expected(Phrase("+")) at
\* that token (EOF if none) and the key is not parsed; a token that is no
\* Mod leaves the cursor where it is and the key is parsed with no
\* modifier. So a Key of a returned Program has the modifier Some(m) exactly
\* when the tokens at the key were Mod(m), Phrase("+"), Id(key).
C6_ModifierNeedsPlus ==
    /\ [][pc = "parse_key" =>
            IF CurTok # None /\ CurTok[1].kind.tag = "Mod"
            THEN /\ pc' = "expect_plus"
                 /\ modifier' = CurTok[1].kind.val
                 /\ parser'.cursor = parser.cursor + 1
            ELSE /\ pc' = "take_key"
                 /\ modifier' = <<>>
                 /\ parser' = parser]_vars
    /\ [][pc = "expect_plus" =>
            IF CurTok # None /\ CurTok[1].kind = Phrase(str_plus)
            THEN /\ pc' = "take_key"
                 /\ modifier' = modifier
                 /\ parser'.cursor = parser.cursor + 1
            ELSE /\ pc' = "done"
                 /\ result'.tag = "Err"
                 /\ result'.val =
                      IF CurTok = None
                      THEN [position |-> EOF, kind |-> Expected(Phrase(str_plus))]
                      ELSE ErrorAt(CurTok[1], Expected(Phrase(str_plus)))
                 /\ parser' = parser]_vars
    /\ []((pc = "done" /\ result.tag = "Ok") =>
            LET segs == Split(parser.tokens) IN
            /\ Len(segs) = Len(result.val)
            /\ \A j \in 1..Len(result.val) :
                 LET seg == segs[j]
                     k == result.val[j].key
                 IN /\ Len(seg) >= 3
                    /\ (k.modifier # <<>>) <=>
                         /\ Len(seg) >= 4
                         /\ seg[2].kind.tag = "Mod"
                         /\ seg[2].kind.val = k.modifier
                         /\ seg[3].kind = Phrase(str_plus)
                         /\ seg[4].kind = Id(k.key)
                    /\ (k.modifier = <<>>) <=> seg[2].kind = Id(k.key))

\* a modifier with an identifier after it: Expected(Phrase("+")) at the identifier
C6_Witness ==
    /\ pc = "done"
    /\ result.tag = "Err"
    /\ result.val.kind = Expected(Phrase(str_plus))
    /\ CurTok # None
    /\ CurTok[1].kind.tag = "Id"
    /\ result.val.position = Pos(CurTok[1].line, CurTok[1].col)

\* C7: a ParseError is positioned at the token at the parser's cursor when
\* the parse failed, and is EOF exactly when the cursor was at the end of
\* the tokens; the operation that fails does not move the cursor. The
\* tokens of "map ctrl+k" fail with ExpectedId at EOF.
C7_ErrorAtCursor ==
    /\ []((pc = "done" /\ result.tag = "Err") =>
            /\ result.val.position.tag = "EOF" <=> parser.cursor >= Len(parser.tokens)
            /\ CurTok # None =>
                 result.val.position
                   = [tag |-> "Pos", line |-> CurTok[1].line, col |-> CurTok[1].col]
            /\ \A i \in 1..parser.cursor :
                 <<parser.tokens[i].line, parser.tokens[i].col>>
                   # <<result.val.position.line, result.val.position.col>>)
    /\ [][result'.tag = "Err" => parser'.cursor = parser.cursor]_vars
    /\ []((/\ pc = "done"
           /\ Len(parser.tokens) = 4
           /\ parser.tokens[1].kind = Phrase(str_map)
           /\ parser.tokens[2].kind.tag = "Mod"
           /\ parser.tokens[3].kind = Phrase(str_plus)
           /\ parser.tokens[4].kind.tag = "Id") =>
            /\ result.tag = "Err"
            /\ result.val = [position |-> EOF, kind |-> ExpectedId])

\* the tokens of "map ctrl+k": the command name is missing at the end
C7_Witness ==
    /\ pc = "done"
    /\ result.tag = "Err"
    /\ Len(parser.tokens) = 4
    /\ parser.cursor = 4
    /\ parser.tokens[2].kind.tag = "Mod"
    /\ result.val.kind = ExpectedId

\* C8: parse returns Ok exactly for the token sequences of the grammar
\* Program := Statement (Newline Statement)*, and then the Program holds one
\* statement for each line, in the order of the lines; the empty sequence
\* and a sequence that ends in Newline are rejected; a token that is no
\* Newline after a complete statement fails with Expected(Newline) at it.
C8_GrammarAcceptance ==
    pc = "done" =>
        LET toks == parser.tokens
            segs == Split(toks)
            nls  == {i \in 1..Len(toks) : IsNewline(toks[i])}
        IN /\ result.tag \in {"Ok", "Err"}
           /\ result.tag = "Ok" <=> IsProgram(toks)
           /\ result.tag = "Ok" =>
                /\ Len(result.val) = Cardinality(nls) + 1
                /\ result.val = [j \in 1..Len(segs) |-> StatementOf(segs[j])]
           /\ toks = <<>> => result.tag = "Err"
           /\ (toks # <<>> /\ IsNewline(toks[Len(toks)])) => result.tag = "Err"
           /\ \A n \in 1..(Len(toks) - 1) :
                (IsProgram(SubSeq(toks, 1, n)) /\ ~IsNewline(toks[n + 1])) =>
                    /\ result.tag = "Err"
                    /\ result.val = ErrorAt(toks[n + 1], Expected(Newline))

\* two statements, the first without and the second with a modifier or the
\* other way round, or both without
C8_Witness ==
    /\ pc = "done"
    /\ result.tag = "Ok"
    /\ Len(result.val) = 2
    /\ result.val[1].cmd_name # result.val[2].cmd_name

\* C10: when parse_program returns Ok the cursor is at the end of the
\* tokens, so parse never returns RemainingTokens and never unwraps None;
\* every failure of parse is Expected(..) or ExpectedId.
C10_NoRemainingTokens ==
    /\ pc = "parse_check" => Parser_is_done(parser)
    /\ pc = "done" =>
         /\ result.tag \in {"Ok", "Err"}
         /\ result.tag = "Err" => result.val.kind.tag \in {"Expected", "ExpectedId"}

\* parse_program returned Ok after take_mod's ExpectedMod was dropped
C10_Witness ==
    /\ pc = "parse_check"
    /\ Len(program) = 2
    /\ program[1].key.modifier = <<>>

====
